---- MODULE Spec2Model ----
(***************************************************************************)
(* Model of the Paws & Hugs pet adoption API (src/main.py): the handlers   *)
(* list_pets, create_adoption_request and seed_pets over a document store  *)
(* with the collections "pet" and "adoptionrequest".                       *)
(*                                                                         *)
(* Text (names, descriptions, locations, search strings, identifiers as    *)
(* they travel over HTTP) is a sequence of one-character strings, so that  *)
(* case folding, substring search, regular-expression search and the       *)
(* parsing and printing of identifiers are computed character by           *)
(* character.  Every handler runs in a worker thread of its own and the    *)
(* handlers interleave between store operations (Spec); SeqSpec is the     *)
(* same system with one handler in progress at a time.                     *)
(***************************************************************************)
EXTENDS Integers, Sequences, FiniteSets, Bags, TLC

VARIABLES dbReady, pets, requests, nextOid, resp, running

vars == <<dbReady, pets, requests, nextOid, resp, running>>

\* ------------------------------------------------------------------ bounds
MaxInitPets == 2      \* documents already in the pet collection at start
MaxRequests == 1      \* stored adoption requests
NumProcs    == 2      \* worker threads: handlers in progress at a time

\* ------------------------------------------------------------------- text
\* Python's None (a missing Optional value, a null field).  Every text is a
\* sequence of one-character strings, so this value equals no text.
None == <<"None">>

UpperCase == <<"A","B","C","D","E","F","G","H","I","J","K","L","M",
               "N","O","P","Q","R","S","T","U","V","W","X","Y","Z">>
LowerCase == <<"a","b","c","d","e","f","g","h","i","j","k","l","m",
               "n","o","p","q","r","s","t","u","v","w","x","y","z">>

\* Case folding of one character, as the "i" option of $regex does.
Lower(c) ==
    IF \E i \in 1..26 : UpperCase[i] = c
    THEN LowerCase[CHOOSE i \in 1..26 : UpperCase[i] = c]
    ELSE c

\* text contains sub as a contiguous substring, ignoring case.
ContainsIgnoreCase(text, sub) ==
    /\ text # None
    /\ \E s \in 1..(Len(text) + 1) :
          /\ s + Len(sub) - 1 <= Len(text)
          /\ \A k \in 1..Len(sub) : Lower(text[s + k - 1]) = Lower(sub[k])

\* {"$regex": pat, "$options": "i"} applied to one field value: an
\* unanchored, case-insensitive regular-expression search.  The pattern
\* language covered is the one the search strings below are written in:
\* a leading "^" anchors the match at the start of the text, "." matches
\* any one character but a newline, every other character of the alphabet
\* used here is a literal.  A field that is null or absent never matches.
RegexSearch(text, pat) ==
    LET anchored == Len(pat) > 0 /\ pat[1] = "^"
        body     == IF anchored THEN Tail(pat) ELSE pat
        starts   == IF anchored THEN {1} ELSE 1..(Len(text) + 1)
    IN  /\ text # None
        /\ \E s \in starts :
              /\ s + Len(body) - 1 <= Len(text)
              /\ \A k \in 1..Len(body) :
                    \/ body[k] = "." /\ text[s + k - 1] # "\n"
                    \/ body[k] # "." /\ Lower(text[s + k - 1]) = Lower(body[k])

\* ------------------------------------------------------------ identifiers
\* A store identifier (bson ObjectId) is 12 bytes.  Over HTTP it travels as
\* its 24 hexadecimal digits.
OidBytes == 12
HexDigits == <<"0","1","2","3","4","5","6","7","8","9","a","b","c","d","e","f">>
HexUpper  == <<"0","1","2","3","4","5","6","7","8","9","A","B","C","D","E","F">>

IsHex(c) == \E i \in 1..16 : HexDigits[i] = c \/ HexUpper[i] = c
HexVal(c) == (CHOOSE i \in 1..16 : HexDigits[i] = c \/ HexUpper[i] = c) - 1

\* ASCII white space, which bytes.fromhex skips between bytes: space, \t,
\* \n, the vertical tab (character 11, written as itself), \f and \r.
VerticalTab == ""
IsSpace(c) == c \in {" ", "\t", "\n", VerticalTab, "\f", "\r"}

\* bytes.fromhex(s) succeeds: s is a run of two-digit bytes, with white
\* space allowed before, between and after the bytes but not inside one.
RECURSIVE FromHexValid(_)
FromHexValid(s) ==
    IF s = <<>> THEN TRUE
    ELSE IF IsSpace(s[1]) THEN FromHexValid(Tail(s))
    ELSE /\ Len(s) >= 2
         /\ IsHex(s[1]) /\ IsHex(s[2])
         /\ FromHexValid(SubSeq(s, 3, Len(s)))

\* bytes.fromhex(s): the bytes s spells.
RECURSIVE FromHex(_)
FromHex(s) ==
    IF s = <<>> THEN <<>>
    ELSE IF IsSpace(s[1]) THEN FromHex(Tail(s))
    ELSE <<16 * HexVal(s[1]) + HexVal(s[2])>> \o FromHex(SubSeq(s, 3, Len(s)))

\* ObjectId(s) raises InvalidId unless s has 24 characters and
\* bytes.fromhex(s) succeeds.  A text of 24 characters with white space in
\* it passes, and yields fewer than 12 bytes.
ObjectIdValid(s) ==
    /\ Len(s) = 2 * OidBytes
    /\ FromHexValid(s)

\* ObjectId(s) for a text it accepts.
ObjectId(s) == FromHex(s)

\* str(oid): two lower-case hexadecimal digits for each byte.
OidStr(oid) ==
    [k \in 1..(2 * Len(oid)) |->
        LET b == oid[(k + 1) \div 2]
        IN  IF k % 2 = 1 THEN HexDigits[(b \div 16) + 1]
                         ELSE HexDigits[(b % 16) + 1]]

\* The n-th identifier the store hands out: 4 bytes of time, 5 bytes fixed
\* per client process, 3 bytes of counter.
NewOid(n) ==
    [i \in 1..OidBytes |->
        IF i = OidBytes THEN n % 256
        ELSE IF i \in 5..9 THEN 171
        ELSE 0]

\* ---------------------------------------------------------------- fixture
Dog    == <<"D","o","g">>
Cat    == <<"C","a","t">>
Rabbit == <<"R","a","b","b","i","t">>
Small  == <<"S","m","a","l","l">>
Large  == <<"L","a","r","g","e">>
Female == <<"F","e","m","a","l","e">>
Male   == <<"M","a","l","e">>

\* The three starter records of seed_pets, in insertion order.
sample_pets == <<
    [ name        |-> <<"M","o","c","h","a">>,
      species     |-> Dog,
      age_years   |-> "1.5",
      gender      |-> Female,
      size        |-> Small,
      \* "Sweet, snuggly pup who loves belly rubs."
      description |-> <<"S","w","e","e","t",","," ","s","n","u","g","g","l","y"," ",
                        "p","u","p"," ","w","h","o"," ","l","o","v","e","s"," ",
                        "b","e","l","l","y"," ","r","u","b","s",".">>,
      photo_url   |-> "https://images.unsplash.com/photo-1543466835-00a7907e9de1?w=900&q=80&auto=format&fit=crop",
      \* "Sunnyvale Shelter"
      location    |-> <<"S","u","n","n","y","v","a","l","e"," ",
                        "S","h","e","l","t","e","r">>,
      is_adopted  |-> FALSE ],
    [ name        |-> <<"M","i","s","o">>,
      species     |-> Cat,
      age_years   |-> "3",
      gender      |-> Male,
      size        |-> Small,
      \* "Calm lap cat, purr motor included."
      description |-> <<"C","a","l","m"," ","l","a","p"," ","c","a","t",","," ",
                        "p","u","r","r"," ","m","o","t","o","r"," ",
                        "i","n","c","l","u","d","e","d",".">>,
      photo_url   |-> "https://images.unsplash.com/photo-1518791841217-8f162f1e1131?w=900&q=80&auto=format&fit=crop",
      \* "Palo Alto Rescue"
      location    |-> <<"P","a","l","o"," ","A","l","t","o"," ",
                        "R","e","s","c","u","e">>,
      is_adopted  |-> FALSE ],
    [ name        |-> <<"T","a","r","o">>,
      species     |-> Rabbit,
      age_years   |-> "2",
      gender      |-> Female,
      size        |-> Small,
      \* "Gentle bun who loves leafy greens."
      description |-> <<"G","e","n","t","l","e"," ","b","u","n"," ","w","h","o"," ",
                        "l","o","v","e","s"," ","l","e","a","f","y"," ",
                        "g","r","e","e","n","s",".">>,
      photo_url   |-> "https://images.unsplash.com/photo-1548767797-d8c844163c4c?w=900&q=80&auto=format&fit=crop",
      \* "Mountain View Haven"
      location    |-> <<"M","o","u","n","t","a","i","n"," ","V","i","e","w"," ",
                        "H","a","v","e","n">>,
      is_adopted  |-> FALSE ] >>

\* ------------------------------------------------------------------ store
\* insert_one: the store assigns the document's _id.
InsertOne(coll, doc, n) == Append(coll, [_id |-> NewOid(n)] @@ doc)

\* count_documents({})
CountDocuments(coll) == Len(coll)

\* One clause of a query document against one stored document: "$or" holds
\* when some alternative matches, any other key is an exact match on a
\* field the document has.
MatchesKey(doc, key, val) ==
    IF key = "$or"
    THEN \E k \in 1..Len(val) :
            /\ val[k].field \in DOMAIN doc
            /\ RegexSearch(doc[val[k].field], val[k].regex)
    ELSE key \in DOMAIN doc /\ doc[key] = val

\* A query document matches when all of its keys do.
Matches(doc, filter) == \A key \in DOMAIN filter : MatchesKey(doc, key, filter[key])

\* find(filter), in the collection's natural order.
Find(coll, filter) == SelectSeq(coll, LAMBDA d : Matches(d, filter))

\* find_one() with the filter left out: the collection's first document.
FindOne_AnyDoc(coll, oid) ==
    IF coll = <<>> THEN <<>> ELSE <<coll[1]>>

\* find_one({"_id": oid}): the matching documents, cut to the first; the
\* empty sequence stands for Python's None.
FindOne(coll, oid) ==
    LET m == SelectSeq(coll, LAMBDA d : d._id = oid)
    IN  IF m = <<>> THEN <<>> ELSE <<m[1]>>

\* database.create_document: insert, and return the new identifier as text.
create_document(coll, data, n) ==
    [coll |-> InsertOne(coll, data, n), id |-> OidStr(NewOid(n))]

\* database.get_documents: every document the filter matches.
get_documents(coll, filter) == Find(coll, filter)

\* ------------------------------------------------------------ the handlers
\* Python truthiness of an Optional[str] parameter.
Truthy(x) == x # None /\ x # <<>>

\* PetOut.from_mongo: the public view of a stored pet.
from_mongo(doc) ==
    [ id          |-> OidStr(doc._id),
      name        |-> doc.name,
      species     |-> doc.species,
      age_years   |-> doc.age_years,
      gender      |-> doc.gender,
      size        |-> doc.size,
      description |-> doc.description,
      photo_url   |-> doc.photo_url,
      location    |-> doc.location,
      is_adopted  |-> doc.is_adopted ]

\* list_pets' query document without the is_adopted restriction.
filter_q_NoAdoptedFilter(species, size, q) ==
    (IF Truthy(species) THEN [species |-> species] ELSE <<>>)
    @@ (IF Truthy(size) THEN [size |-> size] ELSE <<>>)
    @@ (IF Truthy(q)
        THEN ("$or" :> << [field |-> "name",        regex |-> q],
                          [field |-> "description", regex |-> q],
                          [field |-> "location",    regex |-> q] >>)
        ELSE <<>>)

\* The query document list_pets builds from its parameters.
filter_q(species, size, q) ==
    [is_adopted |-> FALSE]
    @@ (IF Truthy(species) THEN [species |-> species] ELSE <<>>)
    @@ (IF Truthy(size) THEN [size |-> size] ELSE <<>>)
    @@ (IF Truthy(q)
        THEN ("$or" :> << [field |-> "name",        regex |-> q],
                          [field |-> "description", regex |-> q],
                          [field |-> "location",    regex |-> q] >>)
        ELSE <<>>)

\* The body of list_pets' response.
list_pets(coll, species, size, q) ==
    LET docs == get_documents(coll, filter_q(species, size, q))
    IN  [i \in 1..Len(docs) |-> from_mongo(docs[i])]

\* --------------------------------------------------- the store at start-up
\* Documents the pet collection may hold before this service touches it:
\* an adopted pet, a pet with no description and no location, and an
\* adopted pet whose text resembles the fixture's.
PreDocs == <<
    [ name |-> <<"B","e","l","l","a">>, species |-> Dog, age_years |-> "7",
      gender |-> Female, size |-> Large,
      description |-> <<"C","a","l","m",".">>, photo_url |-> None,
      location |-> <<"S","u","n","n","y","v","a","l","e"," ",
                     "S","h","e","l","t","e","r">>,
      is_adopted |-> TRUE ],
    [ name |-> <<"R","e","x">>, species |-> Dog, age_years |-> "2",
      gender |-> Male, size |-> Small,
      description |-> None, photo_url |-> None, location |-> None,
      is_adopted |-> FALSE ],
    [ name |-> <<"M","a","s","o">>, species |-> Cat, age_years |-> "4",
      gender |-> Male, size |-> Small,
      description |-> None, photo_url |-> None,
      location |-> <<"P","a","l","o"," ","A","l","t","o"," ",
                     "R","e","s","c","u","e">>,
      is_adopted |-> TRUE ] >>

\* The collection a sequence of documents makes, inserted one after the
\* other.
RECURSIVE InsertAll(_, _, _)
InsertAll(coll, docs, n) ==
    IF docs = <<>> THEN coll
    ELSE InsertAll(InsertOne(coll, Head(docs), n), Tail(docs), n + 1)

\* The first documents of PreDocs, MaxInitPets at most.
InitialDocSeqs ==
    { SubSeq(PreDocs, 1, k) : k \in 0..(IF MaxInitPets < Len(PreDocs) THEN MaxInitPets ELSE Len(PreDocs)) }

\* ----------------------------------------------------------------- inputs
\* The parameters (species, size, q) of the listings a client sends.
ListInputs ==
    { <<Dog, None, None>>,
      <<<<>>, Small, <<"C","A","L","M">>>>,
      <<None, None, <<"^","m",".","s","o">>>> }

\* The identifier text with its letters in upper case.
UpperHex(s) ==
    [k \in 1..Len(s) |->
        IF \E i \in 1..16 : HexDigits[i] = s[k]
        THEN HexUpper[CHOOSE i \in 1..16 : HexDigits[i] = s[k]]
        ELSE s[k]]

\* Identifier texts a client may send: one that is too short, one of 24
\* characters with a letter that is no digit, the first identifier of the
\* store with its last byte replaced by a blank and a vertical tab, the
\* first identifier in upper case, and an identifier the store never hands
\* out.
IdInputs ==
    { <<"n","o","t","-","a","n","-","i","d">>,
      [OidStr(NewOid(1)) EXCEPT ![1] = "g"],
      [OidStr(NewOid(1)) EXCEPT ![2 * OidBytes - 1] = " ", ![2 * OidBytes] = VerticalTab],
      UpperHex(OidStr(NewOid(1))),
      OidStr(NewOid(255)) }

\* ---------------------------------------------------------------- states
\* resp is the last response sent: the operation and its request (req), the
\* HTTP status, the payload, and ops, the store operations the handler
\* called to produce it.  running is the bag of handlers that are between
\* two store operations: a seed_pets about to insert sample_pets[i], or a
\* create_adoption_request that found the pet and is about to insert req.
NoResp == [op |-> "none", status |-> 0]

Init ==
    /\ dbReady \in BOOLEAN
    /\ pets \in IF dbReady THEN { InsertAll(<<>>, d, 1) : d \in InitialDocSeqs }
                          ELSE { <<>> }
    /\ requests = <<>>
    /\ nextOid = Len(pets) + 1
    /\ resp = NoResp
    /\ running = EmptyBag

\* HTTPException(status_code=500, detail="Database not configured")
ConfigurationError(op, req) ==
    [op |-> op, req |-> req, status |-> 500,
     detail |-> "Database not configured", ops |-> <<>>]

\* HTTPException(status_code=400, detail="Invalid pet ID")
ValidationError(req) ==
    [op |-> "adopt", req |-> req, status |-> 400,
     detail |-> "Invalid pet ID", ops |-> <<>>]

\* HTTPException(status_code=404, detail="Pet not found")
NotFoundError(req) ==
    [op |-> "adopt", req |-> req, status |-> 404,
     detail |-> "Pet not found", ops |-> <<"find_one">>]

\* {"message": "Request received", "request_id": req_id}
RequestReceived(req, req_id) ==
    [op |-> "adopt", req |-> req, status |-> 200,
     message |-> "Request received", request_id |-> req_id,
     ops |-> <<"find_one", "insert_one">>]

\* {"message": "Already seeded", "count": count}
AlreadySeeded(count) ==
    [op |-> "seed", req |-> <<>>, status |-> 200,
     message |-> "Already seeded", count |-> count,
     ops |-> <<"count_documents">>]

\* {"message": "Seeded", "count": len(sample_pets)}
Seeded ==
    [op |-> "seed", req |-> <<>>, status |-> 200,
     message |-> "Seeded", count |-> Len(sample_pets),
     ops |-> <<"count_documents">> \o [k \in 1..Len(sample_pets) |-> "insert_one"]]

\* create_adoption_request without the pet lookup.
AdoptOutcome_NoLookup(ready, coll, pet_id) ==
    IF ~ready THEN "ConfigurationError"
    ELSE IF ~ObjectIdValid(pet_id) THEN "ValidationError"
    ELSE "ok"

\* create_adoption_request refusing pets that are adopted already.
AdoptOutcome_RejectAdopted(ready, coll, pet_id) ==
    IF ~ready THEN "ConfigurationError"
    ELSE IF ~ObjectIdValid(pet_id) THEN "ValidationError"
    ELSE IF FindOne(coll, ObjectId(pet_id)) = <<>> THEN "NotFoundError"
    ELSE IF FindOne(coll, ObjectId(pet_id))[1].is_adopted THEN "NotFoundError"
    ELSE "ok"

\* create_adoption_request parsing the identifier before it looks at the
\* store handle.
AdoptOutcome_ValidateFirst(ready, coll, pet_id) ==
    IF ~ObjectIdValid(pet_id) THEN "ValidationError"
    ELSE IF ~ready THEN "ConfigurationError"
    ELSE IF FindOne(coll, ObjectId(pet_id)) = <<>> THEN "NotFoundError"
    ELSE "ok"

\* The checks of create_adoption_request, in the order the handler makes
\* them: the store handle, the identifier's form, the pet's existence.
AdoptOutcome(ready, coll, pet_id) ==
    IF ~ready THEN "ConfigurationError"
    ELSE IF ~ObjectIdValid(pet_id) THEN "ValidationError"
    ELSE IF FindOne(coll, ObjectId(pet_id)) = <<>> THEN "NotFoundError"
    ELSE "ok"

\* seed_pets without the count.
SeedDecision_NoCount(ready, coll) ==
    IF ~ready THEN "ConfigurationError" ELSE "seed"

\* The checks of seed_pets: the store handle, then the count.
SeedDecision(ready, coll) ==
    IF ~ready THEN "ConfigurationError"
    ELSE IF CountDocuments(coll) > 0 THEN "AlreadySeeded"
    ELSE "seed"

\* ------------------------------------------------------------------ steps
\* A step is what a handler does up to and including its next store
\* operation, so handlers interleave between store operations.  A handler
\* starts when a worker thread is free.
WorkerFree == BagCardinality(running) < NumProcs

Start(h) == running (+) SetToBag({h})
Finish(h) == running (-) SetToBag({h})

\* GET /api/pets: one find.  Nothing but the response changes.  Without a
\* store handle get_documents fails and the framework answers 500.
ListPets(species, size, q) ==
    LET req == [species |-> species, size |-> size, q |-> q]
    IN  /\ resp' = IF dbReady
                   THEN [op |-> "list", req |-> req, status |-> 200,
                         body |-> list_pets(pets, species, size, q),
                         ops |-> <<"find">>]
                   ELSE [op |-> "list", req |-> req, status |-> 500, ops |-> <<>>]
        /\ UNCHANGED <<dbReady, pets, requests, nextOid, running>>

\* Adoption requests accepted by a handler that has not inserted yet.
InFlightAdopts ==
    BagCardinality(running)
      - BagCardinality(running (-) [h \in { g \in BagToSet(running) : g.op = "adopt" }
                                      |-> CopiesIn(h, running)])

\* create_adoption_request up to and including find_one.  (The guard on
\* the number of requests keeps the collection within MaxRequests.)
AdoptBegin(pet_id) ==
    LET req     == [pet_id |-> pet_id]
        outcome == AdoptOutcome(dbReady, pets, pet_id)
    IN  /\ WorkerFree
        /\ UNCHANGED <<dbReady, pets, requests, nextOid>>
        /\ IF outcome = "ConfigurationError"
           THEN /\ resp' = ConfigurationError("adopt", req)
                /\ UNCHANGED running
           ELSE IF outcome = "ValidationError"
           THEN /\ resp' = ValidationError(req)
                /\ UNCHANGED running
           ELSE IF outcome = "NotFoundError"
           THEN /\ resp' = NotFoundError(req)
                /\ UNCHANGED running
           ELSE /\ Len(requests) + InFlightAdopts < MaxRequests
                /\ running' = Start([op |-> "adopt", req |-> req])
                /\ UNCHANGED resp

\* create_adoption_request marking the pet adopted when it stores a request.
AdoptInsert_MarksAdopted(h) ==
    /\ h.op = "adopt"
    /\ LET r == create_document(requests, h.req, nextOid)
       IN  /\ requests' = r.coll
           /\ nextOid' = nextOid + 1
           /\ resp' = RequestReceived(h.req, r.id)
    /\ pets' = [j \in 1..Len(pets) |->
                  IF pets[j]._id = ObjectId(h.req.pet_id)
                  THEN [pets[j] EXCEPT !.is_adopted = TRUE]
                  ELSE pets[j]]
    /\ running' = Finish(h)
    /\ UNCHANGED dbReady

\* create_adoption_request from create_document to its return.
AdoptInsert(h) ==
    /\ h.op = "adopt"
    /\ LET r == create_document(requests, h.req, nextOid)
       IN  /\ requests' = r.coll
           /\ nextOid' = nextOid + 1
           /\ resp' = RequestReceived(h.req, r.id)
    /\ running' = Finish(h)
    /\ UNCHANGED <<dbReady, pets>>

\* seed_pets up to and including count_documents.
SeedBegin ==
    LET decision == SeedDecision(dbReady, pets)
    IN  /\ WorkerFree
        /\ UNCHANGED <<dbReady, pets, requests, nextOid>>
        /\ IF decision = "ConfigurationError"
           THEN /\ resp' = ConfigurationError("seed", <<>>)
                /\ UNCHANGED running
           ELSE IF decision = "AlreadySeeded"
           THEN /\ resp' = AlreadySeeded(CountDocuments(pets))
                /\ UNCHANGED running
           ELSE /\ running' = Start([op |-> "seed", i |-> 1])
                /\ UNCHANGED resp

\* seed_pets' loop inserting a starter record only when the collection
\* holds no pet of that name.
SeedInsert_SkipExisting(h) ==
    /\ h.op = "seed"
    /\ LET r == create_document(pets, sample_pets[h.i], nextOid)
       IN  IF \E j \in 1..Len(pets) : pets[j].name = sample_pets[h.i].name
           THEN UNCHANGED <<pets, nextOid>>
           ELSE pets' = r.coll /\ nextOid' = nextOid + 1
    /\ IF h.i < Len(sample_pets)
       THEN /\ running' = Finish(h) (+) SetToBag({[op |-> "seed", i |-> h.i + 1]})
            /\ UNCHANGED resp
       ELSE /\ running' = Finish(h)
            /\ resp' = Seeded
    /\ UNCHANGED <<dbReady, requests>>

\* One round of seed_pets' loop; the last round also returns.
SeedInsert(h) ==
    /\ h.op = "seed"
    /\ LET r == create_document(pets, sample_pets[h.i], nextOid)
       IN  pets' = r.coll /\ nextOid' = nextOid + 1
    /\ IF h.i < Len(sample_pets)
       THEN /\ running' = Finish(h) (+) SetToBag({[op |-> "seed", i |-> h.i + 1]})
            /\ UNCHANGED resp
       ELSE /\ running' = Finish(h)
            /\ resp' = Seeded
    /\ UNCHANGED <<dbReady, requests>>

\* The handlers, interleaved.
Next ==
    \/ \E t \in ListInputs : ListPets(t[1], t[2], t[3])
    \/ \E id \in IdInputs : AdoptBegin(id)
    \/ \E h \in BagToSet(running) : AdoptInsert(h)
    \/ SeedBegin
    \/ \E h \in BagToSet(running) : SeedInsert(h)

Spec == Init /\ [][Next]_vars

\* The same steps with one handler in progress at a time: calls made one
\* after the other.
SeqNext ==
    \/ \E t \in ListInputs : running = EmptyBag /\ ListPets(t[1], t[2], t[3])
    \/ \E id \in IdInputs : running = EmptyBag /\ AdoptBegin(id)
    \/ \E h \in BagToSet(running) : AdoptInsert(h)
    \/ running = EmptyBag /\ SeedBegin
    \/ \E h \in BagToSet(running) : SeedInsert(h)

SeqSpec == Init /\ [][SeqNext]_vars

\* ================================================================ claims
\* What the claims call a well-formed identifier: 24 hexadecimal digits.
WellFormedId(s) == Len(s) = 2 * OidBytes /\ \A k \in 1..Len(s) : IsHex(s[k])

\* The text is accepted as an identifier and a document of coll carries it.
Resolves(coll, pet_id) ==
    ObjectIdValid(pet_id) /\ \E j \in 1..Len(coll) : coll[j]._id = ObjectId(pet_id)

\* In the step properties below, a step sends a response when it changes
\* resp; a handler h of running takes a step when the step takes a copy of h
\* out of running, and starts when the step puts a copy of h in.
Steps(h) == CopiesIn(h, running') < CopiesIn(h, running)
Starts(h) == CopiesIn(h, running') > CopiesIn(h, running)

\* C1: whatever the store holds and whatever filters are given, listPets
\* never returns a pet whose is_adopted is true: every returned view has
\* is_adopted false, and so has the stored document it was made from.
C1_AdoptedNeverListed ==
    (resp.op = "list" /\ resp.status = 200) =>
        \A i \in 1..Len(resp.body) :
            /\ resp.body[i].is_adopted = FALSE
            /\ \A j \in 1..Len(pets) :
                  OidStr(pets[j]._id) = resp.body[i].id => pets[j].is_adopted = FALSE

\* C1 witness: a listing by species returned a pet while the store holds an
\* adopted pet of that species.
C1_Witness ==
    /\ resp.op = "list" /\ resp.status = 200
    /\ resp.req.species = Dog
    /\ Len(resp.body) > 0
    /\ \E j \in 1..Len(pets) : pets[j].is_adopted /\ pets[j].species = Dog

\* C2: every pet listPets returns satisfies every provided filter: species
\* and size are equal to the given ones and, when a query is given, the
\* query occurs as a case-insensitive substring of the name, the
\* description or the location.
C2_ResultsSatisfyFilters ==
    (resp.op = "list" /\ resp.status = 200) =>
        \A i \in 1..Len(resp.body) :
            LET v == resp.body[i]
            IN  /\ Truthy(resp.req.species) => v.species = resp.req.species
                /\ Truthy(resp.req.size) => v.size = resp.req.size
                /\ Truthy(resp.req.q) =>
                      \/ ContainsIgnoreCase(v.name, resp.req.q)
                      \/ ContainsIgnoreCase(v.description, resp.req.q)
                      \/ ContainsIgnoreCase(v.location, resp.req.q)

\* C3: with the store handle initialized, submitRequest with an identifier
\* that is not well-formed answers 400 and calls no store operation.
C3_InvalidIdAlways400 ==
    (resp.op = "adopt" /\ dbReady /\ ~WellFormedId(resp.req.pet_id)) =>
        resp.status = 400 /\ resp.ops = <<>>

\* C4 as stated: submitRequest with a well-formed identifier that names no
\* pet of the store always answers 404.
C4_UnknownIdAlways404 ==
    [][ ( /\ resp' # resp /\ resp'.op = "adopt"
          /\ WellFormedId(resp'.req.pet_id)
          /\ ~Resolves(pets, resp'.req.pet_id) )
        => resp'.status = 404 ]_vars

\* C4 amended: submitRequest with a well-formed identifier that names no
\* pet of the store answers 404 "Pet not found" when the store handle is
\* initialized and 500 "Database not configured" when it is not; it stores
\* nothing and goes no further.
C4_UnknownId404WhenConfigured ==
    [][ /\ ( /\ resp' # resp /\ resp'.op = "adopt"
             /\ WellFormedId(resp'.req.pet_id)
             /\ ~Resolves(pets, resp'.req.pet_id) )
           => /\ requests' = requests /\ pets' = pets /\ running' = running
              /\ dbReady => /\ resp'.status = 404
                            /\ resp'.detail = "Pet not found"
                            /\ resp'.ops = <<"find_one">>
              /\ ~dbReady => /\ resp'.status = 500
                             /\ resp'.detail = "Database not configured"
        /\ \A h \in BagToSet(running') :
              (h.op = "adopt" /\ Starts(h)) => Resolves(pets, h.req.pet_id) ]_vars

\* C4 witness: a well-formed identifier was answered with 404 while the
\* store holds pets.
C4_Witness ==
    /\ resp.op = "adopt" /\ resp.status = 404
    /\ WellFormedId(resp.req.pet_id)
    /\ Len(pets) > 0

\* C5: submitRequest with the identifier of a stored pet succeeds whether or
\* not the pet is adopted: it is never refused, and its insert answers 200,
\* appends the request under a newly assigned identifier, and returns that
\* identifier, which is not empty and is no pet's identifier.
C5_ExistingPetSucceeds ==
    [][ /\ (resp' # resp /\ resp'.op = "adopt" /\ resp'.status # 200) =>
              ~Resolves(pets, resp'.req.pet_id)
        /\ \A h \in BagToSet(running) :
              (h.op = "adopt" /\ Steps(h)) =>
                 /\ resp'.op = "adopt" /\ resp'.status = 200
                 /\ resp'.req = h.req
                 /\ Len(requests') = Len(requests) + 1
                 /\ SubSeq(requests', 1, Len(requests)) = requests
                 /\ requests'[Len(requests')].pet_id = h.req.pet_id
                 /\ \A i \in 1..Len(requests) :
                       requests[i]._id # requests'[Len(requests')]._id
                 /\ resp'.request_id = OidStr(requests'[Len(requests')]._id)
                 /\ resp'.request_id # <<>>
                 /\ \A j \in 1..Len(pets') :
                       resp'.request_id # OidStr(pets'[j]._id) ]_vars

\* C5 witness: a request for an adopted pet, named in upper-case digits,
\* was accepted and stored.
C5_Witness ==
    /\ resp.op = "adopt" /\ resp.status = 200
    /\ resp.req.pet_id # OidStr(ObjectId(resp.req.pet_id))
    /\ Len(requests) > 0
    /\ requests[Len(requests)].pet_id = resp.req.pet_id
    /\ \E j \in 1..Len(pets) :
          pets[j]._id = ObjectId(resp.req.pet_id) /\ pets[j].is_adopted

\* C6: with calls made one after the other, a seedIfEmpty call starts to
\* insert only on an empty pet collection, and when it returns the
\* collection holds the N fixture records and the answer is count = N; a
\* call that sees a count above zero reports that count and leaves the
\* collection as it is; so a call that follows a seeding call returns
\* "Already seeded" with the same N and inserts nothing.
C6_SeedTwice ==
    [][ /\ \A h \in BagToSet(running') :
              (h.op = "seed" /\ Starts(h) /\ running = EmptyBag) =>
                  pets = <<>> /\ pets' = pets
        /\ \A h \in BagToSet(running) :
              (h.op = "seed" /\ Steps(h) /\ h.i = Len(sample_pets)) =>
                 /\ resp'.op = "seed" /\ resp'.status = 200
                 /\ resp'.message = "Seeded"
                 /\ resp'.count = Len(sample_pets)
                 /\ Len(pets') = Len(sample_pets)
                 /\ \A i \in 1..Len(sample_pets) :
                       [k \in DOMAIN sample_pets[i] |-> pets'[i][k]] = sample_pets[i]
        /\ (resp' # resp /\ resp'.op = "seed" /\ resp'.status = 200
              /\ resp'.message = "Already seeded") =>
                 /\ Len(pets) > 0
                 /\ resp'.count = Len(pets)
                 /\ pets' = pets
                 /\ running' = running
        /\ (running = EmptyBag /\ Len(pets) > 0) =>
                 /\ pets' = pets
                 /\ \A h \in BagToSet(running') : h.op # "seed"
        /\ (resp.op = "seed" /\ resp.status = 200 /\ resp.message = "Seeded"
              /\ resp' # resp /\ resp'.op = "seed") =>
                 /\ resp'.status = 200
                 /\ resp'.message = "Already seeded"
                 /\ resp'.count = resp.count
                 /\ pets' = pets ]_vars

\* C6 witness: the fixture was seeded into an empty collection and a later
\* call answered "Already seeded" with the fixture's size.
C6_Witness ==
    /\ resp.op = "seed" /\ resp.status = 200
    /\ resp.message = "Already seeded"
    /\ resp.count = Len(sample_pets)
    /\ Len(pets) = Len(sample_pets)
    /\ \A i \in 1..Len(pets) : pets[i].name = sample_pets[i].name

\* C7: without a store handle submitRequest and seedIfEmpty answer 500
\* "Database not configured" whatever the input, call no store operation,
\* go no further, and the collections stay as they are.
C7_NoStoreHandle ==
    ~dbReady =>
        /\ pets = <<>> /\ requests = <<>>
        /\ running = EmptyBag
        /\ resp.op \in {"adopt", "seed"} =>
              /\ resp.status = 500
              /\ resp.detail = "Database not configured"
              /\ resp.ops = <<>>

\* C7 witness: without a store handle a request with a malformed
\* identifier was answered 500.
C7_Witness ==
    /\ ~dbReady
    /\ resp.op = "adopt" /\ resp.status = 500
    /\ ~ObjectIdValid(resp.req.pet_id)

\* C8: seedIfEmpty's count and its inserts are separate store operations:
\* a handler that counted zero inserts each starter record whatever the
\* collection holds by then, so that two handlers that both counted zero
\* leave the starter set twice (C8_Witness).
C8_SeedInsertsWhateverIsStored ==
    [][ \A h \in BagToSet(running) :
          (h.op = "seed" /\ Steps(h)) =>
             /\ Len(pets') = Len(pets) + 1
             /\ SubSeq(pets', 1, Len(pets)) = pets
             /\ [k \in DOMAIN sample_pets[h.i] |-> pets'[Len(pets')][k]]
                   = sample_pets[h.i] ]_vars

\* C8 witness: no handler is in progress and the pet collection holds 2N
\* documents, every starter record twice.
C8_Witness ==
    /\ running = EmptyBag
    /\ Len(pets) = 2 * Len(sample_pets)
    /\ \A i \in 1..Len(sample_pets) :
          Cardinality({ j \in 1..Len(pets) :
              [k \in DOMAIN sample_pets[i] |-> pets[j][k]] = sample_pets[i] }) = 2

\* C9: under every interleaving, the pet_id of every stored adoption
\* request, and of every request a handler has checked and is about to
\* insert, is the identifier of a pet in the store.
C9_RequestsResolve ==
    /\ \A i \in 1..Len(requests) : Resolves(pets, requests[i].pet_id)
    /\ \A h \in BagToSet(running) :
          h.op = "adopt" => Resolves(pets, h.req.pet_id)

\* C9 witness: a request for a starter pet was stored while a seeding
\* handler was still inserting.
C9_Witness ==
    /\ Len(requests) > 0
    /\ \E h \in BagToSet(running) : h.op = "seed"
    /\ \E j \in 1..Len(pets) :
          /\ pets[j]._id = ObjectId(requests[1].pet_id)
          /\ pets[j].name = sample_pets[1].name

\* C10: a submitRequest that fails leaves both collections as they are, its
\* lookup changes nothing, its insert appends exactly one adoption request
\* and leaves the pet collection, every is_adopted flag included, as it is,
\* nothing else changes the adoption requests, and listPets changes neither
\* collection.
C10_OnlyMutationIsInsert ==
    [][ /\ (resp' # resp /\ resp'.op = "adopt" /\ resp'.status # 200) =>
              /\ resp'.status \in {400, 404, 500}
              /\ pets' = pets /\ requests' = requests
        /\ \A h \in BagToSet(running') :
              (h.op = "adopt" /\ Starts(h)) => pets' = pets /\ requests' = requests
        /\ \A h \in BagToSet(running) :
              (h.op = "adopt" /\ Steps(h)) =>
                 /\ pets' = pets
                 /\ Len(requests') = Len(requests) + 1
                 /\ SubSeq(requests', 1, Len(requests)) = requests
        /\ requests' # requests =>
              \E h \in BagToSet(running) : h.op = "adopt" /\ Steps(h)
        /\ (resp' # resp /\ resp'.op = "list") =>
              pets' = pets /\ requests' = requests ]_vars

\* C10 witness: with a stored request and an adopted and an unadopted pet in
\* the store, a request was refused with 404.
C10_Witness ==
    /\ resp.op = "adopt" /\ resp.status = 404
    /\ Len(requests) = 1
    /\ \E j \in 1..Len(pets) : pets[j].is_adopted
    /\ \E j \in 1..Len(pets) : ~pets[j].is_adopted

====
